---- MODULE Spec2Model ----
(***************************************************************************)
(* A model of embeddings-py/embedding_generator.py: the frequency-based    *)
(* word selection, the min-max quantization, the collision analyses, the   *)
(* EmbeddingGenerator object and the main() pipeline.                      *)
(*                                                                         *)
(* Words are sequences of one-character strings, so that str.lower(),      *)
(* str.isalpha() and len() are computed rather than assumed.  Arrays are   *)
(* float32 (what SentenceTransformer.encode, UMAP.fit_transform and        *)
(* cosine_similarity return); a float32 is a pair <<m, e>> standing for    *)
(* m / 2^e with m < 2^24, and every arithmetic step rounds to nearest,     *)
(* ties to even, as IEEE 754 does.  The file system is the set of          *)
(* directories and the set of regular files that exist under the working   *)
(* directory; permissions and free space are not modelled.                 *)
(***************************************************************************)
EXTENDS Integers, Sequences, FiniteSets, TLC

VARIABLES
    HAS_BLOSC,      \* module global, set at import (lines 27-31)
    HAS_LZ4,        \* module global, set at import (lines 33-37)
    fs,             \* the file system under the working directory
    corpus,         \* brown.words(): the tokens of the Brown corpus
    build,          \* how this build casts an out-of-range float / a NaN to uintN
    entry,          \* "main": run as a script; "import": used as a library
    pc,             \* main()'s position
    word_counts,    \* main()'s local list
    n_idx,          \* index of the current n_words in word_counts (1-based)
    words,          \* main()'s local: the selected words (empty before selection)
    generator,      \* Some(the EmbeddingGenerator's fields), Nothing before construction
    log,            \* the pipeline steps main() has performed, in order
    call            \* the last call made: its name, arguments and result

vars == <<HAS_BLOSC, HAS_LZ4, fs, corpus, build, entry, pc, word_counts, n_idx,
          words, generator, log, call>>

\* Python's None where a name (an exception, a function, a position) is expected
None == "None"
\* an optional value: Nothing is Python's None, Some(x) a value that is set
Nothing == <<>>
Some(x) == <<x>>
IsSet(o) == o # <<>>
ValueOf(o) == o[1]
\* None where a word is expected (the empty string is in no word list either)
NoWord == <<>>

----------------------------------------------------------------------------
(* Bounds of the model *)

\* longest corpus, counted in runs of one repeated token
MaxRuns == 3
\* largest n_words requested of get_frequency_sorted_words
MaxNWords == 3
\* largest element of an array handed to a quantizer
MaxVal == 7
\* longest array handed to a quantizer
MaxArr == 3
\* analyze_collisions: largest element, most rows of the exhaustively
\* enumerated embeddings; most rows and longest period of the periodic ones
MaxCollVal == 1
MaxRows == 3
MaxBigRows == 13
MaxPeriod == 6
\* longest word list handed to analyze_similarity_collisions
MaxSimWords == 3
\* longest word list handed to generate_embeddings by a library user
MaxGenWords == 2

----------------------------------------------------------------------------
(* Sequence helpers *)

Min2(a, b) == IF a <= b THEN a ELSE b

RECURSIVE Concat(_)
Concat(ss) == IF ss = <<>> THEN <<>> ELSE Head(ss) \o Concat(Tail(ss))

Repeat(x, k) == [i \in 1..k |-> x]

Range(s) == {s[i] : i \in 1..Len(s)}

\* all sequences over S of length lo..hi
SeqsOf(S, lo, hi) == UNION {[1..k -> S] : k \in lo..hi}

\* Python's x in list
InList(x, s) == \E i \in 1..Len(s) : s[i] = x

\* Python's list.index(x), as a 1-based position (x must be in s)
IndexOf(x, s) == CHOOSE i \in 1..Len(s) : s[i] = x /\ \A j \in 1..(i - 1) : s[j] # x

\* Python's s[:n] for n >= 0
Prefix(s, n) == SubSeq(s, 1, Min2(n, Len(s)))

----------------------------------------------------------------------------
(* str.isalpha, str.lower, len *)

LowerAlphabet == <<"a","b","c","d","e","f","g","h","i","j","k","l","m",
                   "n","o","p","q","r","s","t","u","v","w","x","y","z">>
UpperAlphabet == <<"A","B","C","D","E","F","G","H","I","J","K","L","M",
                   "N","O","P","Q","R","S","T","U","V","W","X","Y","Z">>

\* str.isalpha(): non-empty and every character a letter
isalpha(w) == Len(w) > 0 /\ \A i \in 1..Len(w) :
                 InList(w[i], LowerAlphabet) \/ InList(w[i], UpperAlphabet)

LowerChar(c) == IF InList(c, UpperAlphabet)
                THEN LowerAlphabet[IndexOf(c, UpperAlphabet)] ELSE c

\* str.lower()
lower(w) == [i \in 1..Len(w) |-> LowerChar(w[i])]

----------------------------------------------------------------------------
(* The words the model uses *)

w_house == <<"h","o","u","s","e">>
w_home == <<"h","o","m","e">>
w_Home == <<"H","o","m","e">>
w_day == <<"d","a","y">>
w_time == <<"t","i","m","e">>
w_water == <<"w","a","t","e","r">>
w_person == <<"p","e","r","s","o","n">>
w_man == <<"m","a","n">>
w_sea == <<"s","e","a">>
w_cat == <<"c","a","t">>
w_the == <<"t","h","e">>
w_ox == <<"o","x">>
w_c4t == <<"c","4","t">>
w_zzz == <<"z","z","z">>
w_dog == <<"d","o","g">>
w_sun == <<"s","u","n">>
w_tree == <<"t","r","e","e">>
w_road == <<"r","o","a","d">>
w_book == <<"b","o","o","k">>
w_international == <<"i","n","t","e","r","n","a","t","i","o","n","a","l">>

\* distinct words, as get_frequency_sorted_words returns them
WordPool == <<w_house, w_home, w_day, w_time, w_water, w_person, w_man, w_sea,
              w_cat, w_dog, w_sun, w_tree, w_road, w_book, w_ox, w_international>>

\* nltk.corpus.words.words(): the dictionary ("zzz" is not an English word;
\* an entry may be capitalised)
NltkWords == {w_house, w_Home, w_day, w_time, w_water, w_the, w_ox, w_cat,
              w_international}

\* the tokens a corpus of the model is made of
Tokens == {w_house, w_Home, w_day, w_the, w_ox, w_c4t, w_zzz, w_international}

----------------------------------------------------------------------------
(* get_frequency_sorted_words *)

MinFrequency == 3
MinLength == 3
MaxLength == 12

stop_words == {
    <<"t","h","e">>, <<"b","e">>, <<"t","o">>, <<"o","f">>, <<"a","n","d">>,
    <<"a">>, <<"i","n">>, <<"t","h","a","t">>, <<"h","a","v","e">>, <<"i">>,
    <<"i","t">>, <<"f","o","r">>, <<"n","o","t">>, <<"o","n">>,
    <<"w","i","t","h">>, <<"h","e">>, <<"a","s">>, <<"y","o","u">>,
    <<"d","o">>, <<"a","t">>, <<"t","h","i","s">>, <<"b","u","t">>,
    <<"h","i","s">>, <<"b","y">>, <<"f","r","o","m">>, <<"t","h","e","y">>,
    <<"w","e">>, <<"s","a","y">>, <<"h","e","r">>, <<"s","h","e">>,
    <<"o","r">>, <<"a","n">>, <<"w","i","l","l">>, <<"m","y">>,
    <<"o","n","e">>, <<"a","l","l">>, <<"w","o","u","l","d">>,
    <<"t","h","e","r","e">>, <<"t","h","e","i","r">>, <<"b","e","e","n">>,
    <<"h","a","s">>, <<"h","a","d">>, <<"w","h","o">>, <<"i","t","s">>,
    <<"n","o","w">>, <<"m","a","y">>, <<"d","o","e","s">>, <<"m","a","n","y">>,
    <<"t","h","a","n">>, <<"t","h","e","n">>, <<"t","h","e","m">>,
    <<"t","h","e","s","e">>, <<"v","e","r","y">>, <<"j","u","s","t">>,
    <<"i","n","t","o">>, <<"o","v","e","r">>, <<"a","l","s","o">>,
    <<"y","o","u","r">>, <<"o","n","l","y">>, <<"s","t","i","l","l">>,
    <<"n","e","v","e","r">>, <<"e","a","c","h">>, <<"h","o","w">>,
    <<"o","u","r">>, <<"o","u","t">>, <<"m","o","s","t">>, <<"s","o","m","e">>}

\* line 54: [word.lower() for word in brown.words() if word.isalpha()]
RECURSIVE brown_words(_)
brown_words(c) ==
    IF c = <<>> THEN <<>>
    ELSE IF isalpha(Head(c)) THEN <<lower(Head(c))>> \o brown_words(Tail(c))
    ELSE brown_words(Tail(c))

CountIn(x, s) == Cardinality({i \in 1..Len(s) : s[i] = x})

\* Counter(seq): the distinct elements in order of first occurrence, each with
\* its count (a dict keeps insertion order)
RECURSIVE CounterKeys(_, _)
CounterKeys(s, seen) ==
    IF s = <<>> THEN <<>>
    ELSE IF Head(s) \in seen THEN CounterKeys(Tail(s), seen)
    ELSE <<Head(s)>> \o CounterKeys(Tail(s), seen \cup {Head(s)})

Counter(s) == LET keys == CounterKeys(s, {})
              IN [i \in 1..Len(keys) |-> <<keys[i], CountIn(keys[i], s)>>]

\* insertion of p into a list sorted by descending count, after its equals
\* (sorted(..., reverse=True) is stable)
RECURSIVE InsertByCountDesc(_, _)
InsertByCountDesc(p, s) ==
    IF s = <<>> THEN <<p>>
    ELSE IF Head(s)[2] >= p[2] THEN <<Head(s)>> \o InsertByCountDesc(p, Tail(s))
    ELSE <<p>> \o s

\* Counter.most_common(): by count, descending, equal counts in insertion order
RECURSIVE most_common(_)
most_common(cnt) ==
    IF cnt = <<>> THEN <<>>
    ELSE LET rest == most_common(SubSeq(cnt, 1, Len(cnt) - 1))
         IN InsertByCountDesc(cnt[Len(cnt)], rest)

\* line 61: set(w.lower() for w in nltk_words.words() if w.isalpha())
valid_words == {lower(w) : w \in {v \in NltkWords : isalpha(v)}}

\* lines 81-85: the filter of the selection loop
Selected(word, frequency) ==
    /\ word \in valid_words
    /\ word \notin stop_words
    /\ MinLength <= Len(word) /\ Len(word) <= MaxLength
    /\ isalpha(word)
    /\ frequency >= MinFrequency

\* lines 80-86: frequent_valid_words
frequent_valid_words(c) ==
    SelectSeq(most_common(Counter(brown_words(c))),
              LAMBDA p : Selected(p[1], p[2]))

\* lines 89-96: the slice, the diagnostic prints and the return.  Line 92
\* reads frequent_valid_words[0] and raises IndexError on an empty list.
get_frequency_sorted_words(c, n_words) ==
    LET fvw == frequent_valid_words(c)
        words_only == [i \in 1..Min2(n_words, Len(fvw)) |-> fvw[i][1]]
    IN IF fvw = <<>>
       THEN [raised |-> "IndexError"]
       ELSE [raised |-> None, value |-> words_only]

----------------------------------------------------------------------------
(* float32 arithmetic on the values the arrays of the model hold *)

\* a float32 mantissa has 24 bits
MantissaLimit == 2^24

\* n / d rounded to the nearest integer, ties to even
RoundNearestEven(n, d) ==
    LET q == n \div d
        r == n % d
    IN IF 2 * r > d \/ (2 * r = d /\ q % 2 = 1) THEN q + 1 ELSE q

\* the largest e with floor(a * 2^e / b) < 2^24
RECURSIVE DivExponent(_, _, _)
DivExponent(a, b, e) ==
    IF (2 * a) \div b < MantissaLimit THEN DivExponent(2 * a, b, e + 1) ELSE e

\* float32(a / b) for integers 0 < a < 2^24, 0 < b: the pair <<m, e>>, m / 2^e
F32Div(a, b) ==
    LET e == DivExponent(a, b, 0)
    IN <<RoundNearestEven(a * 2^e, b), e>>

\* the least r with floor(n / 2^r) < 2^24
RECURSIVE ShiftFor(_, _)
ShiftFor(n, r) == IF n \div 2^r < MantissaLimit THEN r ELSE ShiftFor(n, r + 1)

\* float32(x * f) for a small integer x >= 0 and a float32 f
F32MulInt(x, f) ==
    LET n == x * f[1]
        r == ShiftFor(n, 0)
    IN <<RoundNearestEven(n, 2^r), f[2] - r>>

\* the integer part of a float32 f >= 0 with f < 2^24: what a C cast reads
Truncate(f) == f[1] \div 2^(f[2])

\* astype(uintW) of an integer value v >= 0: in range it is v; out of range
\* the C cast is undefined and the build wraps or saturates
AsType(v, width, bld) ==
    IF v < 2^width THEN v
    ELSE IF bld.overflow = "wrap" THEN v % 2^width
    ELSE 2^width - 1

\* astype(uintW) of NaN: undefined too
NaNAsType(width, bld) == IF bld.nan = "zero" THEN 0 ELSE 2^width - 1

Builds == [overflow : {"wrap", "saturate"}, nan : {"zero", "ones"}]

\* the build of the specifications that cast nothing
DefaultBuild == [overflow |-> "wrap", nan |-> "zero"]

SeqMin(s) == CHOOSE x \in Range(s) : \A y \in Range(s) : x <= y
SeqMax(s) == CHOOSE x \in Range(s) : \A y \in Range(s) : x >= y

\* a 2-D array as the flat list of its elements, row by row
Flatten(arr) == Concat(arr)

\* ((x - lo) * scale).astype(uintW) with scale = top / (hi - lo): when
\* hi = lo the scale is inf and 0 * inf is NaN
QuantizeElement(x, lo, hi, top, width, bld) ==
    IF hi = lo THEN NaNAsType(width, bld)
    ELSE AsType(Truncate(F32MulInt(x - lo, F32Div(top, hi - lo))), width, bld)

----------------------------------------------------------------------------
(* The three min-max quantizers *)

\* analyze_collisions.quantize_to_uint (lines 108-112), arr a 2-D array
quantize_to_uint(arr, n_bits, bld) ==
    LET arr_min == SeqMin(Flatten(arr))
        arr_max == SeqMax(Flatten(arr))
        width == IF n_bits <= 8 THEN n_bits ELSE 16
    IN [i \in 1..Len(arr) |-> [j \in 1..Len(arr[i]) |->
           QuantizeElement(arr[i][j], arr_min, arr_max, 2^n_bits - 1, width, bld)]]

\* analyze_similarity_collisions, lines 172-174: the storage type is uint8
\* whatever bits is
quantized_sims(similarities, bits, bld) ==
    LET sim_min == SeqMin(similarities)
        sim_max == SeqMax(similarities)
    IN [i \in 1..Len(similarities) |->
           QuantizeElement(similarities[i], sim_min, sim_max, 2^bits - 1, 8, bld)]

\* export_data.quantize_to_uint8 (lines 344-348), arr a 2-D array
quantize_to_uint8(arr, bld) ==
    LET arr_min == SeqMin(Flatten(arr))
        arr_max == SeqMax(Flatten(arr))
    IN [i \in 1..Len(arr) |-> [j \in 1..Len(arr[i]) |->
           QuantizeElement(arr[i][j], arr_min, arr_max, 255, 8, bld)]]

----------------------------------------------------------------------------
(* analyze_collisions (lines 106-155) *)

MaxGroupsShown == 5

\* lines 142-146: the words whose quantized row is embedding_tuple
colliding_words(embedding_tuples, wds, embedding_tuple) ==
    LET idx == SelectSeq([i \in 1..Len(embedding_tuples) |-> i],
                         LAMBDA i : embedding_tuples[i] = embedding_tuple)
    IN [k \in 1..Len(idx) |-> wds[idx[k]]]

\* collisions with count >= 1 for count > 1
collisions_including_singletons(embedding_counts) ==
    SelectSeq(embedding_counts, LAMBDA p : p[2] >= 1)

\* line 135: the rows counted more than once, in order of first occurrence
collisions(embedding_counts) == SelectSeq(embedding_counts, LAMBDA p : p[2] > 1)

\* lines 140-146: one group per collision, the first five only
collision_groups(embedding_tuples, wds) ==
    LET shown == Prefix(collisions(Counter(embedding_tuples)), MaxGroupsShown)
    IN [g \in 1..Len(shown) |-> colliding_words(embedding_tuples, wds, shown[g][1])]

\* the returned pair: the rate as the fraction num / den, and the groups
analyze_collisions(embeddings, wds, bits, bld) ==
    LET embedding_tuples == quantize_to_uint(embeddings, bits, bld)
        unique_embeddings == Cardinality(Range(embedding_tuples))
        total_embeddings == Len(embeddings)
    IN IF collisions(Counter(embedding_tuples)) # <<>>
       THEN [rate |-> [num |-> total_embeddings - unique_embeddings,
                       den |-> total_embeddings],
             groups |-> collision_groups(embedding_tuples, wds)]
       ELSE [rate |-> [num |-> 0, den |-> 1], groups |-> <<>>]

----------------------------------------------------------------------------
(* The sentence-embedding model and cosine similarity (third-party) *)

\* SentenceTransformer.encode on one word: a fixed vector per word.  The
\* vectors of the model are axis-aligned, so that every cosine is exactly
\* -1, 0 or 1 in float32.
AxisVectors == <<(<<1, 0>>), (<<0, 2>>), (<<-1, 0>>), (<<0, -3>>)>>

encode_word(w) == AxisVectors[(IndexOf(w, WordPool) % 4) + 1]

\* self.model.encode(words): a row per word
encode(wds) == [i \in 1..Len(wds) |-> encode_word(wds[i])]

Dot(u, v) == IF Len(u) = 0 THEN 0
             ELSE LET S[i \in 0..Len(u)] == IF i = 0 THEN 0 ELSE S[i - 1] + u[i] * v[i]
                  IN S[Len(u)]

ISqrt(n) == CHOOSE r \in 0..n : r * r = n

\* sklearn's cosine_similarity of two rows (a zero row is left as it is by
\* normalize, which makes the cosine 0)
cosine_similarity(u, v) ==
    LET norms == ISqrt(Dot(u, u) * Dot(v, v))
    IN IF norms = 0 THEN 0 ELSE Dot(u, v) \div norms

----------------------------------------------------------------------------
(* analyze_similarity_collisions (lines 157-199) *)

common_targets == <<w_house, w_water, w_time, w_person, w_day>>

\* next((w for w in common_targets if w in words), default)
FirstPresent(targets, wds, default) ==
    LET present == SelectSeq(targets, LAMBDA w : InList(w, wds))
    IN IF present = <<>> THEN default ELSE Head(present)

\* select_target whose default is the first word instead of the middle one
select_target_defaults_to_first(wds, target_word) ==
    IF target_word = NoWord \/ ~InList(target_word, wds)
    THEN FirstPresent(common_targets, wds, wds[1])
    ELSE target_word

\* select_target that never looks at the target_word it is given
select_target_ignores_given(wds, target_word) ==
    FirstPresent(common_targets, wds, wds[(Len(wds) \div 2) + 1])

\* lines 159-163: the target the analysis works against (wds non-empty)
select_target(wds, target_word) ==
    IF target_word = NoWord \/ ~InList(target_word, wds)
    THEN FirstPresent(common_targets, wds, wds[(Len(wds) \div 2) + 1])
    ELSE target_word

\* line 198: sum(count - 1 for count in sim_collisions.values())
RECURSIVE SumExtra(_)
SumExtra(cs) == IF cs = <<>> THEN 0 ELSE (Head(cs)[2] - 1) + SumExtra(Tail(cs))

\* The whole function.  Line 162 evaluates words[len(words) // 2] before it
\* searches common_targets, so an empty list raises IndexError whenever the
\* target has to be chosen.  The record keeps the locals target_word and
\* target_idx (1-based) beside the returned rate.
analyze_similarity_collisions(embeddings, wds, target_word, bits, bld) ==
    IF wds = <<>>
    THEN [raised |-> "IndexError"]
    ELSE
      LET target == select_target(wds, target_word)
          target_idx == IndexOf(target, wds)
          similarities == [i \in 1..Len(embeddings) |->
                             cosine_similarity(embeddings[target_idx], embeddings[i])]
          qs == quantized_sims(similarities, bits, bld)
          sim_collisions == collisions(Counter(qs))
      IN [raised |-> None, target_word |-> target, target_idx |-> target_idx,
          quantized_sims |-> qs,
          rate |-> [num |-> SumExtra(sim_collisions), den |-> Len(wds)]]

----------------------------------------------------------------------------
(* class EmbeddingGenerator (lines 201-421) *)

\* __init__ (lines 202-207)
EmbeddingGenerator == [words |-> Nothing, embeddings |-> Nothing, umap_coords |-> Nothing]

\* generate_embeddings (lines 209-220): the generator afterwards
generate_embeddings(g, wds) ==
    [g EXCEPT !.words = Some(wds), !.embeddings = Some(encode(wds))]

\* umap.UMAP(...).fit_transform (third-party, random_state fixed): two
\* coordinates per row
fit_transform(embeddings) ==
    [i \in 1..Len(embeddings) |-> <<embeddings[i][1] + embeddings[i][2], i>>]

\* generate_umap_coordinates assigning the projection to self.embeddings
generate_umap_coordinates_into_embeddings(g) ==
    IF ~IsSet(g.embeddings)
    THEN [raised |-> "ValueError", generator |-> g]
    ELSE [raised |-> None,
          generator |-> [g EXCEPT !.embeddings =
                                     Some(fit_transform(ValueOf(g.embeddings)))]]

\* generate_umap_coordinates (lines 222-243): what it raises and the
\* generator afterwards
generate_umap_coordinates(g) ==
    IF ~IsSet(g.embeddings)
    THEN [raised |-> "ValueError", generator |-> g]
    ELSE [raised |-> None,
          generator |-> [g EXCEPT !.umap_coords =
                                     Some(fit_transform(ValueOf(g.embeddings)))]]

\* test_similarity taking both indices from word1
test_similarity_same_index(g, word1, word2) ==
    IF ~IsSet(g.words) THEN [raised |-> "TypeError", value |-> Nothing]
    ELSE IF ~InList(word1, ValueOf(g.words)) \/ ~InList(word2, ValueOf(g.words))
    THEN [raised |-> None, value |-> Nothing]
    ELSE LET idx1 == IndexOf(word1, ValueOf(g.words))
         IN [raised |-> None,
             value |-> Some(cosine_similarity(ValueOf(g.embeddings)[idx1],
                                              ValueOf(g.embeddings)[idx1]))]

\* test_similarity (lines 245-254): `in None` raises TypeError; the value is
\* Nothing for a returned None
test_similarity(g, word1, word2) ==
    IF ~IsSet(g.words) THEN [raised |-> "TypeError", value |-> Nothing]
    ELSE IF ~InList(word1, ValueOf(g.words)) \/ ~InList(word2, ValueOf(g.words))
    THEN [raised |-> None, value |-> Nothing]
    ELSE LET idx1 == IndexOf(word1, ValueOf(g.words))
             idx2 == IndexOf(word2, ValueOf(g.words))
         IN [raised |-> None,
             value |-> Some(cosine_similarity(ValueOf(g.embeddings)[idx1],
                                              ValueOf(g.embeddings)[idx2]))]

\* format_names with the LZ4 file guarded by HAS_BLOSC
format_names_lz4_under_blosc(has_blosc, has_lz4) ==
    <<"JSON (raw)", "JSON (gzip)", "JSON (brotli)", "NumPy (.npz)",
      "Float32 binary (gzip)", "Float16 binary (gzip)">>
    \o (IF has_blosc THEN <<"Blosc2 (float32)">> ELSE <<>>)
    \o (IF has_blosc THEN <<"LZ4 (float32)">> ELSE <<>>)
    \o <<"8-bit quantized JSON (raw)", "8-bit quantized + Brotli",
         "Base64 + Brotli (web)">>

\* the keys export_data puts into formats, in the order it writes the files
\* (lines 280-391)
format_names(has_blosc, has_lz4) ==
    <<"JSON (raw)", "JSON (gzip)", "JSON (brotli)", "NumPy (.npz)",
      "Float32 binary (gzip)", "Float16 binary (gzip)">>
    \o (IF has_blosc THEN <<"Blosc2 (float32)">> ELSE <<>>)
    \o (IF has_lz4 THEN <<"LZ4 (float32)">> ELSE <<>>)
    \o <<"8-bit quantized JSON (raw)", "8-bit quantized + Brotli",
         "Base64 + Brotli (web)">>

\* insertion of p into a list sorted by ascending size, after its equals
RECURSIVE InsertBySizeAsc(_, _)
InsertBySizeAsc(p, s) ==
    IF s = <<>> THEN <<p>>
    ELSE IF Head(s)[2] <= p[2] THEN <<Head(s)>> \o InsertBySizeAsc(p, Tail(s))
    ELSE <<p>> \o s

\* line 409: sorted(formats.items(), key=lambda x: x[1])
RECURSIVE sorted_formats(_)
sorted_formats(formats) ==
    IF formats = <<>> THEN <<>>
    ELSE InsertBySizeAsc(formats[Len(formats)],
                         sorted_formats(SubSeq(formats, 1, Len(formats) - 1)))

\* _print_results (lines 403-421): the lines it prints, in order, and the
\* format it names as smallest
print_results(formats) ==
    LET sf == sorted_formats(formats)
    IN [listed |-> sf, smallest |-> sf[1][1]]

\* the file export_data writes for a format (lines 284-376)
file_name(name) ==
    CASE name = "JSON (raw)" -> "embeddings.json"
      [] name = "JSON (gzip)" -> "embeddings.json.gz"
      [] name = "JSON (brotli)" -> "embeddings.json.br"
      [] name = "NumPy (.npz)" -> "embeddings.npz"
      [] name = "Float32 binary (gzip)" -> "embeddings_float32.bin.gz"
      [] name = "Float16 binary (gzip)" -> "embeddings_float16.bin.gz"
      [] name = "Blosc2 (float32)" -> "embeddings.blosc2"
      [] name = "LZ4 (float32)" -> "embeddings.lz4"
      [] name = "8-bit quantized JSON (raw)" -> "embeddings_quantized.json"
      [] name = "8-bit quantized + Brotli" -> "embeddings_quantized.json.br"
      [] name = "Base64 + Brotli (web)" -> "embeddings_b64.json.br"

\* a path is the sequence of its names, relative to the working directory
\* (<<>>), which exists
parent(p) == SubSeq(p, 1, Len(p) - 1)
is_dir(f, p) == p = <<>> \/ p \in f.dirs
is_file(f, p) == p \in f.files

\* line 260: Path.mkdir(exist_ok=True), without parents=True.  os.mkdir fails
\* when the path exists (forgiven when it is a directory), when its parent is
\* missing and when its parent is not a directory.
mkdir(f, p) ==
    IF is_dir(f, p) THEN [raised |-> None, fs |-> f]
    ELSE IF is_file(f, p) THEN [raised |-> "FileExistsError", fs |-> f]
    ELSE IF is_file(f, parent(p)) THEN [raised |-> "NotADirectoryError", fs |-> f]
    ELSE IF ~is_dir(f, parent(p)) THEN [raised |-> "FileNotFoundError", fs |-> f]
    ELSE [raised |-> None, fs |-> [f EXCEPT !.dirs = @ \cup {p}]]

\* lines 284-391: the files are opened for writing one after the other, in a
\* directory that exists; opening a directory raises IsADirectoryError and
\* leaves the files written before it.  written: the formats written and sized.
RECURSIVE write_files(_, _, _)
write_files(f, dir, names) ==
    IF names = <<>> THEN [raised |-> None, fs |-> f, written |-> <<>>]
    ELSE LET p == Append(dir, file_name(Head(names)))
         IN IF is_dir(f, p)
            THEN [raised |-> "IsADirectoryError", fs |-> f, written |-> <<>>]
            ELSE LET r == write_files([f EXCEPT !.files = @ \cup {p}], dir, Tail(names))
                 IN [r EXCEPT !.written = <<Head(names)>> \o @]

\* the steps of export_data, in order: one per file written and sized, then
\* the printing and the two analyses (lines 284-398)
export_steps(names) ==
    <<"export_data">>
    \o [i \in 1..Len(names) |-> names[i]]
    \o <<"_print_results", "analyze_collisions", "analyze_similarity_collisions">>

\* export_data (lines 257-400) on the file system f; st_size[name] is the
\* size the file system reports for the file of that format.  The directory
\* is made first (line 260); then self.embeddings.tolist() (line 269) and
\* self.umap_coords.tolist() (line 270) raise AttributeError on None.
export_data(g, output_dir, f, st_size, has_blosc, has_lz4) ==
    LET made == mkdir(f, output_dir)
    IN IF made.raised # None
       THEN [raised |-> made.raised, fs |-> made.fs, steps |-> <<"export_data">>]
       ELSE IF ~IsSet(g.embeddings) \/ ~IsSet(g.umap_coords)
       THEN [raised |-> "AttributeError", fs |-> made.fs, steps |-> <<"export_data">>]
       ELSE LET names == format_names(has_blosc, has_lz4)
                wrote == write_files(made.fs, output_dir, names)
                formats == [i \in 1..Len(names) |-> <<names[i], st_size[names[i]]>>]
            IN IF wrote.raised # None
               THEN [raised |-> wrote.raised, fs |-> wrote.fs,
                     steps |-> <<"export_data">> \o wrote.written]
               ELSE [raised |-> None, fs |-> wrote.fs, formats |-> formats,
                     printed |-> print_results(formats),
                     steps |-> export_steps(names)]

----------------------------------------------------------------------------
(* main (lines 423-464) *)

test_pairs == <<(<<w_house, w_home>>), (<<w_person, w_man>>),
                (<<w_time, w_day>>), (<<w_water, w_sea>>)>>

\* lines 447-450: the pairs whose similarity is printed, each with the value
\* test_similarity returned
sample_similarities(g, wds) ==
    LET shown == SelectSeq(test_pairs,
                           LAMBDA p : InList(p[1], wds) /\ InList(p[2], wds))
    IN [i \in 1..Len(shown) |->
           [pair |-> shown[i], sim |-> test_similarity(g, shown[i][1], shown[i][2])]]

\* line 453: f"outputs/output_{n_words}"
output_dir_of(n_words) == <<"outputs", "output_" \o ToString(n_words)>>

\* f"{sim:.3f}" raises TypeError on None
FormatFails(samples) ==
    \E i \in 1..Len(samples) : samples[i].sim.raised # None \/ ~IsSet(samples[i].sim.value)

\* main_next with the call of generate_umap_coordinates left out
main_next_skips_umap(p) ==
    CASE p = "select" -> "construct"
      [] p = "construct" -> "embed"
      [] p = "embed" -> "similarities"
      [] p = "umap" -> "similarities"
      [] p = "similarities" -> "export"
      [] p = "export" -> "completed"

\* the position after p inside one pass of the loop body (lines 437-455)
main_next(p) ==
    CASE p = "select" -> "construct"
      [] p = "construct" -> "embed"
      [] p = "embed" -> "umap"
      [] p = "umap" -> "similarities"
      [] p = "similarities" -> "export"
      [] p = "export" -> "completed"

----------------------------------------------------------------------------
(* Corpora *)

RunLengths == {1, MinFrequency}

\* a corpus is a concatenation of at most MaxRuns runs of one token
Runs == Tokens \X RunLengths
Corpora == {Concat([i \in 1..Len(rs) |-> Repeat(rs[i][1], rs[i][2])]) :
               rs \in SeqsOf(Runs, 0, MaxRuns)}

NoCall == [op |-> None]

\* a working directory with nothing in it
NoFiles == [dirs |-> {}, files |-> {}]

----------------------------------------------------------------------------
(* Specification of get_frequency_sorted_words alone *)

InitFreq ==
    /\ HAS_BLOSC = FALSE /\ HAS_LZ4 = FALSE
    /\ fs = NoFiles
    /\ corpus \in Corpora
    /\ build = DefaultBuild
    /\ entry = "import"
    /\ pc = None /\ word_counts = <<>> /\ n_idx = 0 /\ words = <<>>
    /\ generator = Nothing
    /\ log = <<>>
    /\ call = NoCall

CallGetFrequencySortedWords ==
    /\ call = NoCall
    /\ \E n \in 0..MaxNWords :
          call' = [op |-> "get_frequency_sorted_words", n_words |-> n,
                   result |-> get_frequency_sorted_words(corpus, n)]
    /\ UNCHANGED <<HAS_BLOSC, HAS_LZ4, fs, corpus, build, entry, pc, word_counts,
                   n_idx, words, generator, log>>

NextFreq == CallGetFrequencySortedWords

SpecFreq == InitFreq /\ [][NextFreq]_vars

----------------------------------------------------------------------------
(* C2 *)

\* how often word w occurs in the corpus, case-insensitively, among the
\* alphabetic tokens
CorpusFrequency(w) ==
    Cardinality({i \in 1..Len(corpus) : isalpha(corpus[i]) /\ lower(corpus[i]) = w})

Qualifies(w) ==
    /\ \E v \in NltkWords : isalpha(v) /\ lower(v) = w
    /\ w \notin stop_words
    /\ Len(w) \in 3..12
    /\ isalpha(w)
    /\ CorpusFrequency(w) >= 3

QualifyingWords == {w \in {lower(t) : t \in Range(corpus)} : Qualifies(w)}

FirstQualifying(r, n) ==
    /\ Len(r) = Min2(n, Cardinality(QualifyingWords))
    /\ \A i \in 1..Len(r) : r[i] \in QualifyingWords
    /\ \A i, j \in 1..Len(r) : i # j => r[i] # r[j]
    /\ \A i, j \in 1..Len(r) : i < j => CorpusFrequency(r[i]) >= CorpusFrequency(r[j])
    /\ \A q \in QualifyingWords \ Range(r) :
          \A i \in 1..Len(r) : CorpusFrequency(r[i]) >= CorpusFrequency(q)

\* C2: get_frequency_sorted_words(n_words) returns exactly the first
\* min(n_words, Q) qualifying words, most frequent first, without duplicates,
\* whatever the corpus: it always returns, also when no word qualifies.
C2_ReturnsFirstQualifying ==
    call.op = "get_frequency_sorted_words" =>
        /\ call.result.raised = None
        /\ FirstQualifying(call.result.value, call.n_words)

\* the part of C2 the code does satisfy: whenever it returns, the value is the
\* first min(n_words, Q) qualifying words (used to locate the divergence)
C2_WhenItReturns ==
    (call.op = "get_frequency_sorted_words" /\ call.result.raised = None) =>
        FirstQualifying(call.result.value, call.n_words)

C2_RaisesOnlyWithoutQualifying ==
    (call.op = "get_frequency_sorted_words" /\ call.result.raised # None) =>
        QualifyingWords = {}

----------------------------------------------------------------------------
(* Specification of the quantizers alone *)

InitQuant ==
    /\ HAS_BLOSC = FALSE /\ HAS_LZ4 = FALSE
    /\ fs = NoFiles
    /\ corpus = <<>>
    /\ build \in Builds
    /\ entry = "import"
    /\ pc = None /\ word_counts = <<>> /\ n_idx = 0 /\ words = <<>>
    /\ generator = Nothing
    /\ log = <<>>
    /\ call = NoCall

QuantBits == {8, 16}

CallQuantizeToUint ==
    /\ call = NoCall
    /\ \E arr \in SeqsOf(0..MaxVal, 1, MaxArr), bits \in QuantBits :
          call' = [op |-> "quantize_to_uint", arr |-> arr, bits |-> bits,
                   result |-> quantize_to_uint(<<arr>>, bits, build)[1]]
    /\ UNCHANGED <<HAS_BLOSC, HAS_LZ4, fs, corpus, build, entry, pc, word_counts,
                   n_idx, words, generator, log>>

CallQuantizedSims ==
    /\ call = NoCall
    /\ \E arr \in SeqsOf(0..MaxVal, 1, MaxArr), bits \in QuantBits :
          call' = [op |-> "quantized_sims", arr |-> arr, bits |-> bits,
                   result |-> quantized_sims(arr, bits, build)]
    /\ UNCHANGED <<HAS_BLOSC, HAS_LZ4, fs, corpus, build, entry, pc, word_counts,
                   n_idx, words, generator, log>>

CallQuantizeToUint8 ==
    /\ call = NoCall
    /\ \E arr \in SeqsOf(0..MaxVal, 1, MaxArr) :
          call' = [op |-> "quantize_to_uint8", arr |-> arr, bits |-> 8,
                   result |-> quantize_to_uint8(<<arr>>, build)[1]]
    /\ UNCHANGED <<HAS_BLOSC, HAS_LZ4, fs, corpus, build, entry, pc, word_counts,
                   n_idx, words, generator, log>>

NextQuant == CallQuantizeToUint \/ CallQuantizedSims \/ CallQuantizeToUint8

SpecQuant == InitQuant /\ [][NextQuant]_vars

----------------------------------------------------------------------------
(* C8 *)

IsQuantizerCall == call.op \in {"quantize_to_uint", "quantized_sims", "quantize_to_uint8"}

NonConstant(arr) == SeqMin(arr) < SeqMax(arr)

InRange(q, bits) == \A i \in 1..Len(q) : q[i] \in 0..(2^bits - 1)

EndsMapped(arr, q, bits) ==
    \A i \in 1..Len(arr) :
        /\ arr[i] = SeqMin(arr) => q[i] = 0
        /\ arr[i] = SeqMax(arr) => q[i] = 2^bits - 1

OrderPreserved(arr, q) ==
    \A i, j \in 1..Len(arr) : arr[i] <= arr[j] => q[i] <= q[j]

\* C8: for bits 8 and 16, each of the three quantizers maps a non-constant
\* array into 0..2^bits-1, its minimum to 0 and its maximum to 2^bits-1, and
\* preserves order (so nothing wrapped around in the storage type).
C8_MinMaxQuantization ==
    (IsQuantizerCall /\ NonConstant(call.arr)) =>
        /\ InRange(call.result, call.bits)
        /\ EndsMapped(call.arr, call.result, call.bits)
        /\ OrderPreserved(call.arr, call.result)

\* what the code does satisfy at 8 bits, and at 16 bits where the storage is
\* uint16: range, minimum to 0 and order
C8_RangeAndOrderWhereStorageFits ==
    (IsQuantizerCall /\ NonConstant(call.arr)
        /\ (call.op = "quantized_sims" => call.bits = 8)) =>
        /\ InRange(call.result, call.bits)
        /\ OrderPreserved(call.arr, call.result)
        /\ \A i \in 1..Len(call.arr) : call.arr[i] = SeqMin(call.arr) => call.result[i] = 0

\* reached: in float32, 255 / 7 is rounded down and 7 * scale = 254.99998 is
\* truncated, so the maximum of [0, 7] is stored as 254
C8_MaxRoundedDown ==
    /\ call.op = "quantize_to_uint8"
    /\ call.arr = <<0, 7>>
    /\ call.result = <<0, 254>>

\* reached: at bits = 16 the similarities are still stored as uint8, so the
\* maximum 65535 of [0, 1] is stored as 255
C8_SixteenBitsStoredAsUint8 ==
    /\ call.op = "quantized_sims" /\ call.bits = 16
    /\ call.arr = <<0, 1>>
    /\ call.result = <<0, 255>>

----------------------------------------------------------------------------
(* Specification of analyze_collisions alone *)

CollDims == {1, 2}

\* every array of at most MaxRows rows over 0..MaxCollVal
SmallEmbeddings ==
    UNION {SeqsOf([1..d -> 0..MaxCollVal], 1, MaxRows) : d \in CollDims}

\* one-column arrays of up to MaxBigRows rows whose values repeat with a period
PeriodicEmbeddings ==
    {[i \in 1..n |-> <<((i - 1) * a) % m>>] :
        n \in (MaxRows + 1)..MaxBigRows, m \in 1..MaxPeriod, a \in {1, 2}}

InitColl ==
    /\ HAS_BLOSC = FALSE /\ HAS_LZ4 = FALSE
    /\ fs = NoFiles
    /\ corpus = <<>>
    /\ build \in Builds
    /\ entry = "import"
    /\ pc = None /\ word_counts = <<>> /\ n_idx = 0 /\ words = <<>>
    /\ generator = Nothing
    /\ log = <<>>
    /\ call = NoCall

CallAnalyzeCollisions ==
    /\ call = NoCall
    /\ \E embeddings \in SmallEmbeddings \cup PeriodicEmbeddings, bits \in QuantBits :
          LET wds == SubSeq(WordPool, 1, Len(embeddings))
          IN call' = [op |-> "analyze_collisions", embeddings |-> embeddings,
                      words |-> wds, bits |-> bits,
                      result |-> analyze_collisions(embeddings, wds, bits, build)]
    /\ UNCHANGED <<HAS_BLOSC, HAS_LZ4, fs, corpus, build, entry, pc, word_counts,
                   n_idx, words, generator, log>>

NextColl == CallAnalyzeCollisions

SpecColl == InitColl /\ [][NextColl]_vars

----------------------------------------------------------------------------
(* C4 *)

QuantizedRows == quantize_to_uint(call.embeddings, call.bits, build)
RowCount == Len(call.embeddings)
DistinctRowCount == Cardinality(Range(QuantizedRows))
WordsWithRow(row) == {call.words[i] : i \in {k \in 1..RowCount : QuantizedRows[k] = row}}
RowOfWord(w) == QuantizedRows[IndexOf(w, call.words)]

\* C4: the rate is (N - U) / N; the result is (0.0, []) exactly when the N
\* quantized rows are pairwise distinct; otherwise there are at most 5 groups,
\* each of at least 2 words, each holding exactly the words of one quantized
\* row, and no word is in two groups.
C4_CollisionCounting ==
    call.op = "analyze_collisions" =>
        LET r == call.result
        IN /\ r.rate.num * RowCount = (RowCount - DistinctRowCount) * r.rate.den
           /\ (r.rate.num = 0 /\ r.groups = <<>>) <=> (DistinctRowCount = RowCount)
           /\ DistinctRowCount < RowCount =>
                /\ Len(r.groups) \in 1..5
                /\ \A g \in 1..Len(r.groups) :
                      /\ Len(r.groups[g]) >= 2
                      /\ Range(r.groups[g]) = WordsWithRow(RowOfWord(r.groups[g][1]))
                      /\ Cardinality(Range(r.groups[g])) = Len(r.groups[g])
                /\ \A g, h \in 1..Len(r.groups) :
                      g # h => Range(r.groups[g]) \cap Range(r.groups[h]) = {}

\* more than five rows collide and five groups are returned
C4_Witness ==
    /\ call.op = "analyze_collisions"
    /\ Cardinality({row \in Range(QuantizedRows) : Cardinality(WordsWithRow(row)) > 1}) > 5
    /\ Len(call.result.groups) = 5
    /\ \E g \in 1..5 : Len(call.result.groups[g]) > 2

----------------------------------------------------------------------------
(* Specification of analyze_similarity_collisions alone *)

\* the five common targets and three words that are none of them
SimVocabulary == {w_house, w_water, w_time, w_person, w_day, w_cat, w_dog, w_sun}

InitSim ==
    /\ HAS_BLOSC = FALSE /\ HAS_LZ4 = FALSE
    /\ fs = NoFiles
    /\ corpus = <<>>
    /\ build \in Builds
    /\ entry = "import"
    /\ pc = None /\ word_counts = <<>> /\ n_idx = 0 /\ words = <<>>
    /\ generator = Nothing
    /\ log = <<>>
    /\ call = NoCall

CallAnalyzeSimilarityCollisions ==
    /\ call = NoCall
    /\ \E wds \in SeqsOf(SimVocabulary, 0, MaxSimWords),
          target_word \in SimVocabulary \cup {NoWord}, bits \in QuantBits :
          call' = [op |-> "analyze_similarity_collisions", words |-> wds,
                   target_word |-> target_word, bits |-> bits,
                   result |-> analyze_similarity_collisions(encode(wds), wds,
                                                            target_word, bits, build)]
    /\ UNCHANGED <<HAS_BLOSC, HAS_LZ4, fs, corpus, build, entry, pc, word_counts,
                   n_idx, words, generator, log>>

NextSim == CallAnalyzeSimilarityCollisions

SpecSim == InitSim /\ [][NextSim]_vars

----------------------------------------------------------------------------
(* C7 *)

GivenAndPresent == call.target_word # NoWord /\ InList(call.target_word, call.words)

\* the first of house, water, time, person, day that is in the list, if any
IsFirstCommonPresent(t) ==
    LET ct == <<w_house, w_water, w_time, w_person, w_day>>
    IN \E k \in 1..5 : /\ t = ct[k]
                       /\ InList(ct[k], call.words)
                       /\ \A j \in 1..(k - 1) : ~InList(ct[j], call.words)

NoCommonPresent ==
    \A t \in {w_house, w_water, w_time, w_person, w_day} : ~InList(t, call.words)

\* C7: on a non-empty word list the target is a member of the list: the given
\* target if it is in the list, else the first of house, water, time, person,
\* day that is, else the middle word words[len(words) // 2]; so the lookup of
\* its index does not fail.
C7_TargetIsMember ==
    (call.op = "analyze_similarity_collisions" /\ call.words # <<>>) =>
        LET r == call.result
        IN /\ r.raised = None
           /\ InList(r.target_word, call.words)
           /\ r.target_idx \in 1..Len(call.words)
           /\ call.words[r.target_idx] = r.target_word
           /\ GivenAndPresent => r.target_word = call.target_word
           /\ (~GivenAndPresent /\ ~NoCommonPresent) => IsFirstCommonPresent(r.target_word)
           /\ (~GivenAndPresent /\ NoCommonPresent) =>
                 r.target_word = call.words[(Len(call.words) \div 2) + 1]

\* no target was given and none of the common targets is in the list of three
\* different words: the middle word was taken, not the first and not the last
C7_Witness ==
    /\ call.op = "analyze_similarity_collisions"
    /\ call.target_word = NoWord
    /\ call.words = <<w_cat, w_dog, w_sun>>
    /\ NoCommonPresent
    /\ call.result.raised = None
    /\ call.result.target_word = w_dog
    /\ call.result.target_idx = 2

\* of two words that are no common targets the second one, words[1], was taken
\* although the target given is a common one
C7_MiddleOfTwo ==
    /\ call.op = "analyze_similarity_collisions"
    /\ call.target_word = w_house
    /\ call.words = <<w_sun, w_cat>>
    /\ call.result.raised = None
    /\ call.result.target_word = w_cat
    /\ call.result.target_idx = 2

\* a target was given but is absent, two common targets are present, and the
\* earlier one in the fixed order was taken although it comes later in the list
C7_CommonTargetTaken ==
    /\ call.op = "analyze_similarity_collisions"
    /\ call.target_word # NoWord /\ ~InList(call.target_word, call.words)
    /\ call.result.raised = None
    /\ call.result.target_word = w_water
    /\ InList(w_day, call.words)
    /\ call.result.target_idx > 1

----------------------------------------------------------------------------
(* The program: run as a script (main) or imported and used as a library *)

AllFormatNames == Range(format_names(TRUE, TRUE))

\* sizes the file system may report: all equal, growing and shrinking in the
\* order of writing
FewSizeTables ==
    LET names == format_names(TRUE, TRUE)
    IN {[n \in AllFormatNames |-> 7],
        [n \in AllFormatNames |-> IndexOf(n, names)],
        [n \in AllFormatNames |-> 12 - IndexOf(n, names)]}

\* the directories export_data is asked to write to: its default, and the one
\* main() names
OutputDirs == {<<"output">>, output_dir_of(20000)}

\* the working directories the program is started in: a fresh checkout; one
\* with the outputs directory; one left by an earlier run; one where outputs
\* and output are regular files; one where a directory stands where
\* embeddings.npz is to be written
FileSystems ==
    {NoFiles,
     [dirs |-> {<<"outputs">>}, files |-> {}],
     [dirs |-> {<<"outputs">>, output_dir_of(20000)},
      files |-> {Append(output_dir_of(20000), "embeddings.json")}],
     [dirs |-> {}, files |-> {<<"outputs">>, <<"output">>}],
     [dirs |-> {<<"output">>, <<"output", "embeddings.npz">>,
                <<"outputs">>, output_dir_of(20000),
                Append(output_dir_of(20000), "embeddings.npz")},
      files |-> {}]}

MainCorpora ==
    {Repeat(w_house, 3) \o Repeat(w_Home, 3) \o Repeat(w_day, 3) \o Repeat(w_the, 3),
     Repeat(w_Home, 3) \o <<w_c4t>> \o Repeat(w_house, 4),
     Repeat(w_the, 3) \o Repeat(w_ox, 3),
     Repeat(w_day, 3)}

GenVocabulary == {w_house, w_home}

Event(step, k) == [step |-> step, k |-> k]

Init ==
    /\ HAS_BLOSC \in BOOLEAN /\ HAS_LZ4 \in BOOLEAN
    /\ build = DefaultBuild
    /\ entry \in {"main", "import"}
    /\ IF entry = "main"
       THEN /\ fs \in FileSystems
            /\ corpus \in MainCorpora
            /\ word_counts = <<>>
            /\ pc = "start"
            /\ generator = Nothing
       ELSE /\ fs = NoFiles    \* a library user starts in an empty directory
            /\ corpus = <<>>
            /\ word_counts = <<>>
            /\ pc = None
            /\ generator = Some(EmbeddingGenerator)
    /\ n_idx = 0
    /\ words = <<>>
    /\ log = <<>>
    /\ call = NoCall

\* lines 424-431; line 429: word_counts = [20000]
MainStart ==
    /\ entry = "main" /\ pc = "start"
    /\ word_counts' = <<20000>>
    /\ pc' = "select"
    /\ n_idx' = 1
    /\ log' = Append(log, Event("main", 0))
    /\ UNCHANGED <<HAS_BLOSC, HAS_LZ4, fs, corpus, build, entry, words,
                   generator, call>>

\* line 437
MainSelect ==
    /\ entry = "main" /\ pc = "select"
    /\ LET r == get_frequency_sorted_words(corpus, word_counts[n_idx])
       IN /\ call' = [op |-> "get_frequency_sorted_words",
                      n_words |-> word_counts[n_idx], result |-> r]
          /\ IF r.raised # None
             THEN pc' = "crashed" /\ words' = words
             ELSE pc' = main_next(pc) /\ words' = r.value
    /\ log' = Append(log, Event("get_frequency_sorted_words", n_idx))
    /\ UNCHANGED <<HAS_BLOSC, HAS_LZ4, fs, corpus, build, entry, word_counts, n_idx,
                   generator>>

\* line 440
MainConstruct ==
    /\ entry = "main" /\ pc = "construct"
    /\ generator' = Some(EmbeddingGenerator)
    /\ call' = [op |-> "EmbeddingGenerator"]
    /\ pc' = main_next(pc)
    /\ log' = Append(log, Event("EmbeddingGenerator", n_idx))
    /\ UNCHANGED <<HAS_BLOSC, HAS_LZ4, fs, corpus, build, entry, word_counts, n_idx, words>>

\* line 441
MainEmbed ==
    /\ entry = "main" /\ pc = "embed"
    /\ generator' = Some(generate_embeddings(ValueOf(generator), words))
    /\ call' = [op |-> "generate_embeddings", words |-> words,
                pre |-> ValueOf(generator)]
    /\ pc' = main_next(pc)
    /\ log' = Append(log, Event("generate_embeddings", n_idx))
    /\ UNCHANGED <<HAS_BLOSC, HAS_LZ4, fs, corpus, build, entry, word_counts, n_idx, words>>

\* line 442
MainUmap ==
    /\ entry = "main" /\ pc = "umap"
    /\ LET r == generate_umap_coordinates(ValueOf(generator))
       IN /\ generator' = Some(r.generator)
          /\ call' = [op |-> "generate_umap_coordinates",
                      pre |-> ValueOf(generator), result |-> r]
          /\ pc' = IF r.raised # None THEN "crashed" ELSE main_next(pc)
    /\ log' = Append(log, Event("generate_umap_coordinates", n_idx))
    /\ UNCHANGED <<HAS_BLOSC, HAS_LZ4, fs, corpus, build, entry, word_counts, n_idx, words>>

\* lines 445-450
MainSimilarities ==
    /\ entry = "main" /\ pc = "similarities"
    /\ LET samples == sample_similarities(ValueOf(generator), words)
       IN /\ call' = [op |-> "sample_similarities", samples |-> samples]
          /\ pc' = IF FormatFails(samples) THEN "crashed" ELSE main_next(pc)
    /\ log' = Append(log, Event("sample_similarities", n_idx))
    /\ UNCHANGED <<HAS_BLOSC, HAS_LZ4, fs, corpus, build, entry, word_counts, n_idx,
                   words, generator>>

\* line 453
MainExport ==
    /\ entry = "main" /\ pc = "export"
    /\ \E st_size \in FewSizeTables :
          LET output_dir == output_dir_of(word_counts[n_idx])
              r == export_data(ValueOf(generator), output_dir, fs, st_size,
                               HAS_BLOSC, HAS_LZ4)
          IN /\ call' = [op |-> "export_data", output_dir |-> output_dir,
                         pre |-> ValueOf(generator), pre_fs |-> fs, result |-> r]
             /\ fs' = r.fs
             /\ pc' = IF r.raised # None THEN "crashed" ELSE main_next(pc)
             /\ log' = log \o [i \in 1..Len(r.steps) |-> Event(r.steps[i], n_idx)]
    /\ UNCHANGED <<HAS_BLOSC, HAS_LZ4, corpus, build, entry, word_counts, n_idx,
                   words, generator>>

\* line 455 and the loop header, line 431
MainCompleted ==
    /\ entry = "main" /\ pc = "completed"
    /\ log' = Append(log, Event("completed", n_idx))
    /\ IF n_idx < Len(word_counts)
       THEN n_idx' = n_idx + 1 /\ pc' = "select"
       ELSE n_idx' = n_idx /\ pc' = "complete"
    /\ UNCHANGED <<HAS_BLOSC, HAS_LZ4, fs, corpus, build, entry, word_counts, words,
                   generator, call>>

\* lines 457-464
MainComplete ==
    /\ entry = "main" /\ pc = "complete"
    /\ log' = Append(log, Event("GENERATION COMPLETE", 0))
    /\ pc' = "done"
    /\ UNCHANGED <<HAS_BLOSC, HAS_LZ4, fs, corpus, build, entry, word_counts, n_idx,
                   words, generator, call>>

\* a library user's calls on a constructed generator, in any order

GenerateEmbeddings ==
    /\ entry = "import"
    /\ \E wds \in SeqsOf(GenVocabulary, 1, MaxGenWords) :
          /\ generator' = Some(generate_embeddings(ValueOf(generator), wds))
          /\ call' = [op |-> "generate_embeddings", words |-> wds,
                      pre |-> ValueOf(generator)]
    /\ UNCHANGED <<HAS_BLOSC, HAS_LZ4, fs, corpus, build, entry, pc, word_counts,
                   n_idx, words, log>>

GenerateUmapCoordinates ==
    /\ entry = "import"
    /\ LET r == generate_umap_coordinates(ValueOf(generator))
       IN /\ generator' = Some(r.generator)
          /\ call' = [op |-> "generate_umap_coordinates",
                      pre |-> ValueOf(generator), result |-> r]
    /\ UNCHANGED <<HAS_BLOSC, HAS_LZ4, fs, corpus, build, entry, pc, word_counts,
                   n_idx, words, log>>

TestSimilarity ==
    /\ entry = "import"
    /\ \E word1, word2 \in GenVocabulary \cup {w_dog} :
          call' = [op |-> "test_similarity", word1 |-> word1, word2 |-> word2,
                   pre |-> ValueOf(generator),
                   result |-> test_similarity(ValueOf(generator), word1, word2)]
    /\ UNCHANGED <<HAS_BLOSC, HAS_LZ4, fs, corpus, build, entry, pc, word_counts,
                   n_idx, words, generator, log>>

ExportDataWith(tables) ==
    /\ entry = "import"
    /\ \E st_size \in tables, output_dir \in OutputDirs :
          LET r == export_data(ValueOf(generator), output_dir, fs, st_size,
                               HAS_BLOSC, HAS_LZ4)
          IN /\ call' = [op |-> "export_data", output_dir |-> output_dir,
                         pre |-> ValueOf(generator), pre_fs |-> fs, result |-> r]
             /\ fs' = r.fs
    /\ UNCHANGED <<HAS_BLOSC, HAS_LZ4, corpus, build, entry, pc, word_counts,
                   n_idx, words, generator, log>>

ExportData == ExportDataWith(FewSizeTables)

Next ==
    \/ MainStart \/ MainSelect \/ MainConstruct \/ MainEmbed \/ MainUmap
    \/ MainSimilarities \/ MainExport \/ MainCompleted \/ MainComplete
    \/ GenerateEmbeddings \/ GenerateUmapCoordinates \/ TestSimilarity
    \/ ExportData

Spec == Init /\ [][Next]_vars

----------------------------------------------------------------------------
(* Specification of export_data alone, with every assignment of file sizes *)

FileSizes == {1, 2}

AllSizeTables == [AllFormatNames -> FileSizes]

\* generators a caller may hold: fresh, embedded only, and ready to export
ExportGenerators ==
    LET embedded(wds) == generate_embeddings(EmbeddingGenerator, wds)
        ready(wds) == generate_umap_coordinates(embedded(wds)).generator
    IN {EmbeddingGenerator, embedded(<<w_house, w_home>>),
        ready(<<w_house, w_home>>), ready(<<w_cat>>)}

InitExport ==
    /\ HAS_BLOSC \in BOOLEAN /\ HAS_LZ4 \in BOOLEAN
    /\ fs \in FileSystems
    /\ corpus = <<>>
    /\ build = DefaultBuild
    /\ entry = "import"
    /\ pc = None /\ word_counts = <<>> /\ n_idx = 0 /\ words = <<>>
    /\ generator \in {Some(g) : g \in ExportGenerators}
    /\ log = <<>>
    /\ call = NoCall

ExportDataOnce == call = NoCall /\ ExportDataWith(AllSizeTables)

NextExport == ExportDataOnce

SpecExport == InitExport /\ [][NextExport]_vars

----------------------------------------------------------------------------
(* C1 *)

Positions(step, k) == {i \in 1..Len(log) : log[i] = Event(step, k)}

\* step a of pass k has happened before every occurrence of step b of pass k
Before(a, b, k) ==
    \A j \in Positions(b, k) : \E i \in Positions(a, k) : i < j

Passes == 1..Len(word_counts)

ExpectedFormats ==
    {"JSON (raw)", "JSON (gzip)", "JSON (brotli)", "NumPy (.npz)",
     "Float32 binary (gzip)", "Float16 binary (gzip)",
     "8-bit quantized JSON (raw)", "8-bit quantized + Brotli",
     "Base64 + Brotli (web)"}
    \cup (IF HAS_BLOSC THEN {"Blosc2 (float32)"} ELSE {})
    \cup (IF HAS_LZ4 THEN {"LZ4 (float32)"} ELSE {})

\* C1: in every run of main, for each word count the steps happen in the
\* order selection, generate_embeddings, generate_umap_coordinates,
\* export_data; inside export_data the two analyses start only after every
\* format has been written and sized (analyze_collisions first); export_data
\* is never entered with embeddings or umap_coords None, so the only way it
\* fails is on the file system; and GENERATION COMPLETE comes only after
\* every word count has completed.
C1_PipelineOrder ==
    entry = "main" =>
        /\ \A k \in Passes :
              /\ Before("get_frequency_sorted_words", "generate_embeddings", k)
              /\ Before("generate_embeddings", "generate_umap_coordinates", k)
              /\ Before("generate_umap_coordinates", "export_data", k)
              /\ \A f \in ExpectedFormats :
                    /\ Before("export_data", f, k)
                    /\ Before(f, "analyze_collisions", k)
              /\ Before("analyze_collisions", "analyze_similarity_collisions", k)
              /\ \A j \in Positions("export_data", k) :
                    \A i \in 1..(j - 1) : log[i].k = k =>
                        log[i].step \in {"get_frequency_sorted_words", "EmbeddingGenerator",
                                         "generate_embeddings", "generate_umap_coordinates",
                                         "sample_similarities"}
        /\ \A i, j \in 1..Len(log) :
              (i < j /\ log[i].k > 0 /\ log[j].k > 0) => log[i].k <= log[j].k
        /\ pc = "export" =>
              /\ IsSet(generator)
              /\ IsSet(ValueOf(generator).embeddings)
              /\ IsSet(ValueOf(generator).umap_coords)
        /\ call.op = "export_data" =>
              /\ IsSet(call.pre.embeddings) /\ IsSet(call.pre.umap_coords)
              /\ call.result.raised # "AttributeError"
              /\ pc = "crashed" <=> call.result.raised # None
              /\ pc = "crashed" =>
                    /\ Positions("analyze_collisions", n_idx) = {}
                    /\ Positions("completed", n_idx) = {}
        /\ \A j \in Positions("GENERATION COMPLETE", 0) :
              \A k \in Passes : \E i \in Positions("completed", k) : i < j

\* the run over [20000], with blosc2 but without lz4, has finished: it made
\* outputs/output_20000 and wrote the ten files into it
C1_Witness ==
    /\ entry = "main" /\ pc = "done"
    /\ word_counts = <<20000>>
    /\ HAS_BLOSC /\ ~HAS_LZ4
    /\ call.op = "export_data"
    /\ ~is_dir(call.pre_fs, output_dir_of(20000))
    /\ is_dir(fs, output_dir_of(20000))
    /\ is_file(fs, Append(output_dir_of(20000), "embeddings.blosc2"))
    /\ Positions("analyze_similarity_collisions", 1) # {}
    /\ Positions("completed", 1) # {}

\* main() was started where there is no outputs directory: export_data
\* raised at mkdir after the sample similarities, and nothing was written
C1_ExportWithoutOutputs ==
    /\ entry = "main" /\ pc = "crashed"
    /\ call.op = "export_data"
    /\ call.result.raised = "FileNotFoundError"
    /\ fs = NoFiles
    /\ Positions("sample_similarities", n_idx) # {}
    /\ Positions("JSON (raw)", n_idx) = {}

----------------------------------------------------------------------------
(* C3 *)

\* C3: generate_umap_coordinates on a generator whose embeddings are None
\* raises ValueError and changes no field; on one whose embeddings are set it
\* succeeds, sets umap_coords and leaves words and embeddings as they were.
C3_UmapNeedsEmbeddings ==
    call.op = "generate_umap_coordinates" =>
        LET before == call.pre
            after == ValueOf(generator)
        IN /\ ~IsSet(before.embeddings) =>
                 /\ call.result.raised = "ValueError"
                 /\ after = before
           /\ IsSet(before.embeddings) =>
                 /\ call.result.raised = None
                 /\ IsSet(after.umap_coords)
                 /\ Len(ValueOf(after.umap_coords)) = Len(ValueOf(before.embeddings))
                 /\ after.words = before.words
                 /\ after.embeddings = before.embeddings

\* a library user called it on a fresh generator
C3_Witness ==
    /\ call.op = "generate_umap_coordinates"
    /\ ~IsSet(call.pre.embeddings)
    /\ call.result.raised = "ValueError"
    /\ ~IsSet(ValueOf(generator).umap_coords)

----------------------------------------------------------------------------
(* C5 *)

FirstIndex(w, ws) == CHOOSE i \in 1..Len(ws) : ws[i] = w /\ \A j \in 1..(i - 1) : ws[j] # w

\* C5: on a generator whose words and embeddings are set, test_similarity
\* returns None exactly when one of the two words is not in the vocabulary,
\* else the cosine of the embeddings at the first index of each word, and
\* changes no field.  main formats the result exactly for the test pairs
\* whose two words are in the vocabulary, so it never formats None.
C5_SimilarityOrNone ==
    /\ (call.op = "test_similarity" /\ IsSet(call.pre.words) /\ IsSet(call.pre.embeddings)) =>
          LET ws == ValueOf(call.pre.words)
              emb == ValueOf(call.pre.embeddings)
              absent == ~InList(call.word1, ws) \/ ~InList(call.word2, ws)
          IN /\ call.result.raised = None
             /\ ~IsSet(call.result.value) <=> absent
             /\ ~absent => call.result.value =
                              Some(cosine_similarity(emb[FirstIndex(call.word1, ws)],
                                                     emb[FirstIndex(call.word2, ws)]))
             /\ ValueOf(generator) = call.pre
    /\ call.op = "sample_similarities" =>
          /\ pc # "crashed"
          /\ \A i \in 1..Len(call.samples) :
                /\ InList(call.samples[i].pair[1], words)
                /\ InList(call.samples[i].pair[2], words)
                /\ call.samples[i].sim.raised = None
                /\ IsSet(call.samples[i].sim.value)
          /\ \A p \in {<<w_house, w_home>>, <<w_person, w_man>>,
                       <<w_time, w_day>>, <<w_water, w_sea>>} :
                (InList(p[1], words) /\ InList(p[2], words)) =>
                    \E i \in 1..Len(call.samples) : call.samples[i].pair = p

\* main printed house <-> home and skipped time <-> day, of which only day is
\* in the vocabulary
C5_Witness ==
    /\ call.op = "sample_similarities"
    /\ Len(call.samples) = 1
    /\ call.samples[1].pair = <<w_house, w_home>>
    /\ InList(w_day, words) /\ ~InList(w_time, words)

----------------------------------------------------------------------------
(* C6 *)

SizeIn(table, name) == (CHOOSE p \in Range(table) : p[1] = name)[2]

\* C6: the size table has one entry for each of the nine formats always
\* written, a Blosc2 entry exactly when blosc2 was importable and an LZ4
\* entry exactly when lz4 was; JSON (raw) is always there; _print_results
\* lists the entries in non-decreasing size order and the format it names as
\* smallest has the minimum size.  Each entry's file is in the output
\* directory.
C6_SizeTable ==
    (call.op = "export_data" /\ call.result.raised = None) =>
        LET formats == call.result.formats
            listed == call.result.printed.listed
            names == {formats[i][1] : i \in 1..Len(formats)}
        IN /\ names = ExpectedFormats
           /\ Len(formats) = Cardinality(names)
           /\ "JSON (raw)" \in names
           /\ \A n \in names : is_file(fs, Append(call.output_dir, file_name(n)))
           /\ is_dir(fs, call.output_dir)
           /\ Len(listed) = Len(formats)
           /\ Range(listed) = Range(formats)
           /\ \A i, j \in 1..Len(listed) : i < j => listed[i][2] <= listed[j][2]
           /\ call.result.printed.smallest \in names
           /\ \A n \in names :
                 SizeIn(formats, call.result.printed.smallest) <= SizeIn(formats, n)

\* with blosc2 but without lz4, a format other than the first written is the
\* smallest
C6_Witness ==
    /\ call.op = "export_data" /\ call.result.raised = None
    /\ HAS_BLOSC /\ ~HAS_LZ4
    /\ Len(call.result.formats) = 10
    /\ call.result.printed.smallest = "Blosc2 (float32)"
    /\ SizeIn(call.result.formats, "JSON (raw)") = 2
    /\ call.output_dir = <<"output">> /\ ~is_dir(call.pre_fs, call.output_dir)

====
